---- MODULE Spec2Model ----
(***************************************************************************)
(* Model of the Kafka topic Manager of apm-queue (kafka/manager.go):       *)
(* NewManager, Manager.Close and Manager.DeleteTopics.                     *)
(*                                                                         *)
(* Topic names are the naturals 1..NumTopics; their numeric order stands   *)
(* for the lexical order of the names that responses.Sorted() uses.        *)
(*                                                                         *)
(* The collaborators the Manager calls are modelled by their contract:     *)
(*  - the broker keeps the set of existing topics and answers every        *)
(*    requested topic with one error code (none, UNKNOWN_TOPIC_OR_PARTITION *)
(*    when the topic is absent, or another code);                          *)
(*  - the admin client (kadm.Client.DeleteTopics) returns without a        *)
(*    request when no topic is given, returns the transport error of a     *)
(*    failed request, and otherwise returns the responses as a map keyed   *)
(*    by topic name (DeleteTopicResponses), so names repeated in a batch   *)
(*    share one response.                                                  *)
(*                                                                         *)
(* DeleteTopics is split at the points where another goroutine can run:    *)
(* StartCall (lines 86-94), BatchCall (95-100), ClassifyNext (one          *)
(* iteration of the loop at 102-120) and ReturnJoined (121 and the         *)
(* deferred span.End of line 89).                                          *)
(***************************************************************************)
EXTENDS Naturals, Sequences, FiniteSets

\* ---- bounds ----
NumTopics == 3
MaxBatch == 3
ConcTopics == 2
ConcMaxBatch == 1

\* ---- callers ----
Calls == {"c1", "c2"}
SeqCalls == {"c1"}

\* ---- error codes ----
NoErr == "nil"
UnknownTopicOrPartition == "UNKNOWN_TOPIC_OR_PARTITION"
FailCodes == {"TOPIC_AUTHORIZATION_FAILED"}
ErrCodes == {NoErr, UnknownTopicOrPartition} \cup FailCodes
TransportErrs == {"context canceled", "unable to dial"}

NilError == [kind |-> "nil"]

VARIABLES
  mgr,          \* the *Manager NewManager returned (NoManager: nil)
  ctorErr,      \* the error NewManager returned
  ctorArgs,     \* the inputs of the last NewManager call
  ctorTrace,    \* collaborator calls made by the last NewManager call
  clientClosed, \* the admin client has been closed
  existing,     \* broker: topics that exist
  deletedEver,  \* history: topics the broker has reported as deleted
  pc,           \* per call: position in DeleteTopics
  topicNames,   \* per call: topicNames
  clientCalls,  \* per call: number of m.client.DeleteTopics calls made
  batchErr,     \* per call: err of the batch call
  responses,    \* per call: responses (topic -> Err)
  idx,          \* per call: number of loop iterations done
  deleteErrors, \* per call: deleteErrors
  logs,         \* per call: log records emitted
  span,         \* per call: the tracing span
  ret           \* per call: the returned error

vars == <<mgr, ctorErr, ctorArgs, ctorTrace, clientClosed, existing, deletedEver,
          pc, topicNames, clientCalls, batchErr, responses, idx, deleteErrors,
          logs, span, ret>>

ctorVars == <<mgr, ctorErr, ctorArgs, ctorTrace>>
callVars == <<pc, topicNames, clientCalls, batchErr, responses, idx,
              deleteErrors, logs, span, ret>>

\* ---- helpers ----
Range(s) == {s[i] : i \in 1..Len(s)}

SeqsUpTo(S, n) == UNION {[1..k -> S] : k \in 0..n}

MinOf(S) == CHOOSE m \in S : \A x \in S : m <= x

RECURSIVE SortedTopics(_)
SortedTopics(S) ==
  IF S = {} THEN <<>>
  ELSE LET m == MinOf(S) IN <<m>> \o SortedTopics(S \ {m})

\* responses.Sorted(): the responses ordered by topic name
Sorted(resp) == SortedTopics(DOMAIN resp)

NoResponses == [t \in {} |-> NoErr]

\* ---- NewManager ----
NoManager == [ptr |-> "nil"]

\* faulty variant: the connection is attempted before the configuration is validated
NewManagerConnectsFirst(valid, connOk) ==
  IF ~connOk
    THEN [m |-> NoManager,
          err |-> [kind |-> "wrap", msg |-> "kafka: failed creating kafka client"],
          trace |-> <<"newClient">>]
  ELSE IF ~valid
    THEN [m |-> NoManager,
          err |-> [kind |-> "wrap", msg |-> "kafka: invalid manager config"],
          trace |-> <<"newClient", "finalize">>]
  ELSE [m |-> [ptr |-> "manager", cfg |-> "cfg", client |-> "kadm", tracer |-> "kafka"],
        err |-> NilError,
        trace |-> <<"newClient", "finalize">>]

NewManagerResult(valid, connOk) ==
  IF ~valid
    THEN [m |-> NoManager,
          err |-> [kind |-> "wrap", msg |-> "kafka: invalid manager config"],
          trace |-> <<"finalize">>]
  ELSE IF ~connOk
    THEN [m |-> NoManager,
          err |-> [kind |-> "wrap", msg |-> "kafka: failed creating kafka client"],
          trace |-> <<"finalize", "newClient">>]
  ELSE [m |-> [ptr |-> "manager", cfg |-> "cfg", client |-> "kadm", tracer |-> "kafka"],
        err |-> NilError,
        trace |-> <<"finalize", "newClient">>]

NewManager(valid, connOk) ==
  /\ mgr = NoManager
  /\ LET r == NewManagerResult(valid, connOk) IN
       /\ mgr' = r.m
       /\ ctorErr' = r.err
       /\ ctorTrace' = r.trace
  /\ ctorArgs' = [called |-> TRUE, valid |-> valid, connOk |-> connOk]
  /\ UNCHANGED <<clientClosed, existing, deletedEver>>
  /\ UNCHANGED callVars

\* ---- Close ----
Close ==
  /\ mgr # NoManager
  /\ ~clientClosed
  /\ \A c \in Calls : pc[c] = "idle"
  /\ clientClosed' = TRUE
  /\ UNCHANGED <<existing, deletedEver>>
  /\ UNCHANGED ctorVars
  /\ UNCHANGED callVars

\* ---- span ----
NewSpan == [started |-> 0, ended |-> 0, status |-> "Unset", recorded |-> <<>>, events |-> <<>>]

SpanStart(s) ==
  [s EXCEPT !.started = @ + 1, !.events = Append(@, "Start")]

SpanFail(s, err) ==
  [s EXCEPT !.status = "Error",
            !.recorded = Append(@, err),
            !.events = @ \o <<"RecordError", "SetStatus">>]

\* faulty variant: the span is never ended
SpanEndMissing(s) == s

SpanEnd(s) ==
  [s EXCEPT !.ended = @ + 1, !.events = Append(@, "End")]

Init ==
  /\ mgr = NoManager
  /\ ctorErr = NilError
  /\ ctorArgs = [called |-> FALSE, valid |-> FALSE, connOk |-> FALSE]
  /\ ctorTrace = <<>>
  /\ clientClosed = FALSE
  /\ existing \in SUBSET (1..NumTopics)
  /\ deletedEver = {}
  /\ pc = [c \in Calls |-> "idle"]
  /\ topicNames = [c \in Calls |-> <<>>]
  /\ clientCalls = [c \in Calls |-> 0]
  /\ batchErr = [c \in Calls |-> NoErr]
  /\ responses = [c \in Calls |-> NoResponses]
  /\ idx = [c \in Calls |-> 0]
  /\ deleteErrors = [c \in Calls |-> <<>>]
  /\ logs = [c \in Calls |-> <<>>]
  /\ span = [c \in Calls |-> NewSpan]
  /\ ret = [c \in Calls |-> NilError]


\* ---- the admin client and the broker ----

\* The per-topic answers the broker can give for the requested names: a topic
\* that exists is deleted or refused, one that does not exist is reported as
\* unknown or refused. One answer per distinct name: the response is a map.
BrokerAnswers(names, ex) ==
  {r \in [names -> ErrCodes] :
     \A t \in names :
       IF t \in ex THEN r[t] \in {NoErr} \cup FailCodes
                   ELSE r[t] \in {UnknownTopicOrPartition} \cup FailCodes}

DeletedBy(r) == {t \in DOMAIN r : r[t] = NoErr}

\* ---- DeleteTopics ----

\* faulty variant: an unknown topic is treated like any other error
ClassificationAbsentFails(err) ==
  IF err # NoErr THEN "Failed" ELSE "Deleted"

\* errors.Is(err, kerr.UnknownTopicOrPartition) under "response.Err != nil"
Classification(err) ==
  IF err # NoErr
    THEN IF err = UnknownTopicOrPartition THEN "AlreadyAbsent" ELSE "Failed"
    ELSE "Deleted"

\* fmt.Errorf("failed to delete topic %q: %w", response.Topic, err)
WrapTopicError(topic, err) ==
  [kind |-> "wrap", msg |-> "failed to delete topic", topic |-> topic, err |-> err]

\* faulty variant: the transport error is swallowed
WrapTransportErrorDropped(err) == NilError

\* fmt.Errorf("failed to delete kafka topics: %w", err)
WrapTransportError(err) ==
  [kind |-> "wrap", msg |-> "failed to delete kafka topics", topic |-> 0, err |-> err]

\* faulty variant: a composite error is built even from an empty list
JoinErrorsNeverNil(errs) == [kind |-> "join", errs |-> errs]

\* errors.Join: nil when no element is non-nil, else the non-nil elements in order
JoinErrors(errs) ==
  LET nonNil == SelectSeq(errs, LAMBDA e : e # NilError) IN
    IF Len(nonNil) = 0 THEN NilError ELSE [kind |-> "join", errs |-> nonNil]

\* faulty variant: one error list shared by all calls
AppendDeleteErrorShared(de, c, e) == [k \in DOMAIN de |-> Append(de[k], e)]

\* deleteErrors = append(deleteErrors, e) on the list of call c
AppendDeleteError(de, c, e) == [de EXCEPT ![c] = Append(@, e)]

\* faulty variant: a failed deletion is logged too
LogRecordsAlsoFailed(class, topic) ==
  IF class = "AlreadyAbsent"
    THEN <<[level |-> "debug", msg |-> "kafka topic does not exist", topic |-> topic]>>
  ELSE IF class = "Deleted"
    THEN <<[level |-> "info", msg |-> "deleted kafka topic", topic |-> topic]>>
  ELSE <<[level |-> "error", msg |-> "failed to delete kafka topic", topic |-> topic]>>

\* the log records one loop iteration emits
LogRecords(class, topic) ==
  IF class = "AlreadyAbsent"
    THEN <<[level |-> "debug", msg |-> "kafka topic does not exist", topic |-> topic]>>
  ELSE IF class = "Deleted"
    THEN <<[level |-> "info", msg |-> "deleted kafka topic", topic |-> topic]>>
  ELSE <<>>

\* faulty variant: every non-nil response error is recorded on the span
SpanAfterAnyError(s, class, err) == IF class # "Deleted" THEN SpanFail(s, err) ELSE s

\* the span after one loop iteration
SpanAfter(s, class, err) == IF class = "Failed" THEN SpanFail(s, err) ELSE s

\* faulty variant: the loop stops at the first failed topic
LoopAbortOnFailure(i, n, class) == IF class = "Failed" THEN n ELSE i + 1

\* "continue" and the fall-through both go on to the next response
LoopAdvance(i, n, class) == i + 1

StartCall(c, topics) ==
  /\ mgr # NoManager
  /\ ~clientClosed
  /\ pc[c] = "idle"
  /\ pc' = [pc EXCEPT ![c] = "call"]
  /\ span' = [span EXCEPT ![c] = SpanStart(NewSpan)]
  /\ topicNames' = [topicNames EXCEPT ![c] = topics]
  /\ clientCalls' = [clientCalls EXCEPT ![c] = 0]
  /\ batchErr' = [batchErr EXCEPT ![c] = NoErr]
  /\ responses' = [responses EXCEPT ![c] = NoResponses]
  /\ idx' = [idx EXCEPT ![c] = 0]
  /\ deleteErrors' = [deleteErrors EXCEPT ![c] = <<>>]
  /\ logs' = [logs EXCEPT ![c] = <<>>]
  /\ ret' = [ret EXCEPT ![c] = NilError]
  /\ UNCHANGED <<clientClosed, existing, deletedEver>>
  /\ UNCHANGED ctorVars

\* responses, err := m.client.DeleteTopics(ctx, topicNames...) with no topic:
\* the client answers an empty map without a request
BatchCallEmpty(c) ==
  /\ pc[c] = "call"
  /\ Len(topicNames[c]) = 0
  /\ clientCalls' = [clientCalls EXCEPT ![c] = @ + 1]
  /\ responses' = [responses EXCEPT ![c] = NoResponses]
  /\ pc' = [pc EXCEPT ![c] = "loop"]
  /\ UNCHANGED <<clientClosed, existing, deletedEver, topicNames, batchErr, idx,
                 deleteErrors, logs, span, ret>>
  /\ UNCHANGED ctorVars

\* the request fails (err != nil): record, set status, return; span.End runs
BatchCallFails(c, err) ==
  /\ pc[c] = "call"
  /\ Len(topicNames[c]) > 0
  /\ clientCalls' = [clientCalls EXCEPT ![c] = @ + 1]
  /\ batchErr' = [batchErr EXCEPT ![c] = err]
  /\ span' = [span EXCEPT ![c] = SpanEnd(SpanFail(@, err))]
  /\ ret' = [ret EXCEPT ![c] = WrapTransportError(err)]
  /\ pc' = [pc EXCEPT ![c] = "done"]
  /\ UNCHANGED <<clientClosed, existing, deletedEver, topicNames, responses, idx,
                 deleteErrors, logs>>
  /\ UNCHANGED ctorVars

\* the request succeeds: the broker answers every requested name
BatchCallSucceeds(c, r) ==
  /\ pc[c] = "call"
  /\ Len(topicNames[c]) > 0
  /\ clientCalls' = [clientCalls EXCEPT ![c] = @ + 1]
  /\ responses' = [responses EXCEPT ![c] = r]
  /\ existing' = existing \ DeletedBy(r)
  /\ deletedEver' = deletedEver \cup DeletedBy(r)
  /\ pc' = [pc EXCEPT ![c] = "loop"]
  /\ UNCHANGED <<clientClosed, topicNames, batchErr, idx, deleteErrors, logs, span, ret>>
  /\ UNCHANGED ctorVars

\* one iteration of "for _, response := range responses.Sorted()"
ClassifyNext(c) ==
  /\ pc[c] = "loop"
  /\ idx[c] < Len(Sorted(responses[c]))
  /\ LET topic == Sorted(responses[c])[idx[c] + 1]
         err == responses[c][topic]
         class == Classification(err)
     IN
       /\ logs' = [logs EXCEPT ![c] = @ \o LogRecords(class, topic)]
       /\ span' = [span EXCEPT ![c] = SpanAfter(@, class, err)]
       /\ deleteErrors' =
            IF class = "Failed"
              THEN AppendDeleteError(deleteErrors, c, WrapTopicError(topic, err))
              ELSE deleteErrors
       /\ idx' = [idx EXCEPT ![c] = LoopAdvance(@, Len(Sorted(responses[c])), class)]
  /\ UNCHANGED <<clientClosed, existing, deletedEver, pc, topicNames, clientCalls,
                 batchErr, responses, ret>>
  /\ UNCHANGED ctorVars

\* return errors.Join(deleteErrors...), then the deferred span.End()
ReturnJoined(c) ==
  /\ pc[c] = "loop"
  /\ idx[c] >= Len(Sorted(responses[c]))
  /\ ret' = [ret EXCEPT ![c] = JoinErrors(deleteErrors[c])]
  /\ span' = [span EXCEPT ![c] = SpanEnd(@)]
  /\ pc' = [pc EXCEPT ![c] = "done"]
  /\ UNCHANGED <<clientClosed, existing, deletedEver, topicNames, clientCalls,
                 batchErr, responses, idx, deleteErrors, logs>>
  /\ UNCHANGED ctorVars

\* the caller has the returned error; the locals of the call are gone
CallReturned(c) ==
  /\ pc[c] = "done"
  /\ pc' = [pc EXCEPT ![c] = "idle"]
  /\ topicNames' = [topicNames EXCEPT ![c] = <<>>]
  /\ clientCalls' = [clientCalls EXCEPT ![c] = 0]
  /\ batchErr' = [batchErr EXCEPT ![c] = NoErr]
  /\ responses' = [responses EXCEPT ![c] = NoResponses]
  /\ idx' = [idx EXCEPT ![c] = 0]
  /\ deleteErrors' = [deleteErrors EXCEPT ![c] = <<>>]
  /\ logs' = [logs EXCEPT ![c] = <<>>]
  /\ span' = [span EXCEPT ![c] = NewSpan]
  /\ ret' = [ret EXCEPT ![c] = NilError]
  /\ UNCHANGED <<clientClosed, existing, deletedEver>>
  /\ UNCHANGED ctorVars

\* ---- specifications ----

DeleteTopicsStep(c, T, n) ==
  \/ /\ pc[c] = "idle"
     /\ \E topics \in SeqsUpTo(1..T, n) : StartCall(c, topics)
  \/ BatchCallEmpty(c)
  \/ /\ pc[c] = "call"
     /\ \E err \in TransportErrs : BatchCallFails(c, err)
  \/ /\ pc[c] = "call"
     /\ \E r \in BrokerAnswers(Range(topicNames[c]), existing) : BatchCallSucceeds(c, r)
  \/ ClassifyNext(c)
  \/ ReturnJoined(c)
  \/ CallReturned(c)

\* one caller at a time
Next ==
  \/ \E valid \in BOOLEAN, connOk \in BOOLEAN : NewManager(valid, connOk)
  \/ Close
  \/ \E c \in SeqCalls : DeleteTopicsStep(c, NumTopics, MaxBatch)

Spec == Init /\ [][Next]_vars

\* several callers on the same Manager
InitConc ==
  /\ Init
  /\ existing \subseteq 1..ConcTopics

NextConc ==
  \/ \E valid \in BOOLEAN, connOk \in BOOLEAN : NewManager(valid, connOk)
  \/ Close
  \/ \E c \in Calls : DeleteTopicsStep(c, ConcTopics, ConcMaxBatch)

SpecConc == InitConc /\ [][NextConc]_vars

\* ---- properties ----

Done(c) == pc[c] = "done"
BatchOk(c) == Done(c) /\ batchErr[c] = NoErr
Submitted(c) == Range(topicNames[c])
DeletedTopics(c) == {t \in DOMAIN responses[c] : responses[c][t] = NoErr}
AbsentTopics(c) == {t \in DOMAIN responses[c] : responses[c][t] = UnknownTopicOrPartition}
FailedTopics(c) == DOMAIN responses[c] \ (DeletedTopics(c) \cup AbsentTopics(c))
DeletedBefore(c) == deletedEver \ DeletedTopics(c)
LogsFor(c, t) == {i \in 1..Len(logs[c]) : logs[c][i].topic = t}
CountOf(seq, x) == Cardinality({i \in 1..Len(seq) : seq[i] = x})

\* C1: when the batch call succeeded and every per-topic outcome is "unknown
\* topic or partition", DeleteTopics returns nil; and in every state no element
\* of the aggregate error list belongs to a topic whose outcome is AlreadyAbsent.
C1_AbsenceIsNotFailure ==
  \A c \in Calls :
    /\ (BatchOk(c) /\ AbsentTopics(c) = DOMAIN responses[c]) => ret[c] = NilError
    /\ \A i \in 1..Len(deleteErrors[c]) : deleteErrors[c][i].topic \notin AbsentTopics(c)
    /\ (BatchOk(c) /\ ret[c] # NilError) =>
         \A i \in 1..Len(ret[c].errs) : ret[c].errs[i].topic \notin AbsentTopics(c)

C1_Witness ==
  /\ BatchOk("c1")
  /\ Cardinality(AbsentTopics("c1")) >= 2
  /\ AbsentTopics("c1") = DOMAIN responses["c1"]
  /\ ret["c1"] = NilError

\* C2: when the batch call succeeded, every outcome has been classified by the
\* time DeleteTopics returns (a Failed outcome does not stop the loop), the
\* returned error holds exactly one wrapped error per Failed outcome, naming
\* its topic, none for a Deleted or AlreadyAbsent topic, every Deleted topic is
\* logged as deleted, and the error is nil exactly when no outcome is Failed.
C2_PartialFailureIsolation ==
  \A c \in Calls :
    BatchOk(c) =>
      /\ idx[c] = Cardinality(DOMAIN responses[c])
      /\ (ret[c] = NilError) <=> (FailedTopics(c) = {})
      /\ ret[c] # NilError =>
           /\ ret[c].kind = "join"
           /\ Len(ret[c].errs) = Cardinality(FailedTopics(c))
           /\ \A i \in 1..Len(ret[c].errs) : ret[c].errs[i].topic \in FailedTopics(c)
           /\ \A t \in FailedTopics(c) :
                \E i \in 1..Len(ret[c].errs) :
                  /\ ret[c].errs[i].topic = t
                  /\ ret[c].errs[i].err = responses[c][t]
      /\ \A t \in DeletedTopics(c) :
           \E i \in LogsFor(c, t) : logs[c][i].level = "info"

C2_Witness ==
  /\ BatchOk("c1")
  /\ DeletedTopics("c1") = {1, 3}
  /\ FailedTopics("c1") = {2}
  /\ ret["c1"] # NilError
  /\ Len(ret["c1"].errs) = 1
  /\ ret["c1"].errs[1].topic = 2
  /\ Len(logs["c1"]) = 2

\* C3: when the batch call itself fails, DeleteTopics returns a non-nil error
\* that wraps the transport error, no outcome is classified, no log record is
\* emitted and the aggregate error list stays empty.
C3_TransportShortCircuit ==
  \A c \in Calls :
    (Done(c) /\ batchErr[c] # NoErr) =>
      /\ ret[c] # NilError
      /\ ret[c].kind = "wrap"
      /\ ret[c].err = batchErr[c]
      /\ idx[c] = 0
      /\ responses[c] = NoResponses
      /\ logs[c] = <<>>
      /\ deleteErrors[c] = <<>>

C3_Witness ==
  /\ Done("c1")
  /\ batchErr["c1"] = "context canceled"
  /\ Len(topicNames["c1"]) = 3
  /\ ret["c1"].kind = "wrap"
  /\ logs["c1"] = <<>>

C7_SpanLifecycle ==
  \A c \in Calls :
    /\ pc[c] # "idle" => span[c].started = 1
    /\ clientCalls[c] > 0 => (span[c].started = 1 /\ span[c].events[1] = "Start")
    /\ pc[c] \in {"call", "loop"} => span[c].ended = 0
    /\ Done(c) =>
         /\ span[c].ended = 1
         /\ span[c].events[Len(span[c].events)] = "End"
    /\ \A i \in 1..Len(span[c].events) :
         span[c].events[i] = "End" => i = Len(span[c].events)

C7_Witness ==
  /\ Done("c1")
  /\ batchErr["c1"] # NoErr
  /\ span["c1"].events = <<"Start", "RecordError", "SetStatus", "End">>

\* C8: after a NewManager call, an invalid configuration gives a wrapped
\* configuration error, no Manager and no connection attempt; a failed
\* connection gives a wrapped connection error and no Manager; validation
\* comes first; a Manager is returned exactly when both steps succeeded, and
\* exactly one of Manager and error is non-nil.
C8_ConstructionAllOrNothing ==
  ctorArgs.called =>
    /\ ctorTrace[1] = "finalize"
    /\ ~ctorArgs.valid =>
         /\ mgr = NoManager
         /\ ctorErr # NilError
         /\ ctorErr.msg = "kafka: invalid manager config"
         /\ CountOf(ctorTrace, "newClient") = 0
    /\ (ctorArgs.valid /\ ~ctorArgs.connOk) =>
         /\ mgr = NoManager
         /\ ctorErr # NilError
         /\ ctorErr.msg = "kafka: failed creating kafka client"
    /\ (mgr # NoManager) <=> (ctorArgs.valid /\ ctorArgs.connOk)
    /\ (mgr # NoManager) <=> (ctorErr = NilError)

C8_Witness ==
  /\ ctorArgs.called
  /\ ~ctorArgs.valid
  /\ ctorArgs.connOk
  /\ mgr = NoManager
  /\ ctorErr # NilError

\* C9: when DeleteTopics has returned, the span status is Error exactly when
\* the batch call failed or some outcome is Failed, which is exactly when the
\* returned error is non-nil; the errors recorded on the span are those of the
\* Failed outcomes (or the transport error), one status set per recorded
\* error, and nothing is recorded for Deleted or AlreadyAbsent outcomes.
C9_SpanStatusTracksFailure ==
  \A c \in Calls :
    /\ CountOf(span[c].events, "RecordError") = Len(span[c].recorded)
    /\ CountOf(span[c].events, "SetStatus") = Len(span[c].recorded)
    /\ Done(c) =>
         /\ (span[c].status = "Error") <=> (batchErr[c] # NoErr \/ FailedTopics(c) # {})
         /\ (span[c].status = "Error") <=> (ret[c] # NilError)
         /\ batchErr[c] # NoErr => span[c].recorded = <<batchErr[c]>>
         /\ batchErr[c] = NoErr =>
              /\ Len(span[c].recorded) = Cardinality(FailedTopics(c))
              /\ \A t \in FailedTopics(c) :
                   \E i \in 1..Len(span[c].recorded) : span[c].recorded[i] = responses[c][t]

C9_Witness ==
  /\ BatchOk("c1")
  /\ Cardinality(FailedTopics("c1")) = 2
  /\ Cardinality(AbsentTopics("c1")) = 1
  /\ span["c1"].status = "Error"
  /\ Len(span["c1"].recorded) = 2
  /\ ret["c1"] # NilError

\* C10: with several callers in DeleteTopics at once, every element of a
\* call's aggregate error list comes from a Failed outcome of that call, each
\* call returns exactly the error its own outcomes (or its own transport
\* error) determine, and the Manager's fields are not written once it exists.
OwnErrorsOnly(c) ==
  /\ \A i \in 1..Len(deleteErrors[c]) :
       /\ deleteErrors[c][i].topic \in FailedTopics(c)
       /\ deleteErrors[c][i].err = responses[c][deleteErrors[c][i].topic]
  /\ Len(deleteErrors[c]) <= Cardinality(FailedTopics(c))
  /\ BatchOk(c) =>
       /\ (ret[c] = NilError) <=> (FailedTopics(c) = {})
       /\ ret[c] # NilError =>
            /\ ret[c].kind = "join"
            /\ ret[c].errs = deleteErrors[c]
            /\ Len(ret[c].errs) = Cardinality(FailedTopics(c))
  /\ (Done(c) /\ batchErr[c] # NoErr) => (ret[c] # NilError /\ ret[c].err = batchErr[c])

C10_ConcurrentCallsIndependent ==
  /\ [](\A c \in Calls : OwnErrorsOnly(c))
  /\ [][mgr # NoManager => mgr' = mgr]_vars

C10_Witness ==
  /\ pc["c1"] = "loop"
  /\ idx["c1"] = 1
  /\ Len(deleteErrors["c1"]) = 1
  /\ pc["c2"] = "loop"
  /\ idx["c2"] = 1
  /\ deleteErrors["c2"] = <<>>

====
